---- MODULE Spec2Model ----
(***************************************************************************)
(* A model of the PID controller of src/PID.h and src/PID.cpp.             *)
(*                                                                         *)
(* The controller's `float` fields are modelled as exact rationals         *)
(* <<numerator, denominator>> in lowest terms with a positive denominator: *)
(* the model is the controller's arithmetic over the reals.  IEEE rounding,*)
(* overflow to infinity and NaN are outside the model.                     *)
(***************************************************************************)
EXTENDS Integers, Sequences, FiniteSets, TLC

\* ------------------------------------------------------------------------
\* Arithmetic on the controller's float values
\* ------------------------------------------------------------------------

Abs(x) == IF x < 0 THEN -x ELSE x

RECURSIVE GCD(_, _)
GCD(a, b) == IF b = 0 THEN a ELSE GCD(b, a % b)

\* The value n/d (d # 0) in lowest terms, denominator positive.
Rat(n, d) ==
    LET g == GCD(Abs(n), Abs(d))
        s == IF d < 0 THEN -1 ELSE 1
    IN  << (s * n) \div g, (s * d) \div g >>

F(n) == << n, 1 >>

RAdd(x, y) == Rat(x[1] * y[2] + y[1] * x[2], x[2] * y[2])
RSub(x, y) == Rat(x[1] * y[2] - y[1] * x[2], x[2] * y[2])
RMul(x, y) == Rat(x[1] * y[1], x[2] * y[2])
RDiv(x, y) == Rat(x[1] * y[2], x[2] * y[1])
RLt(x, y)  == x[1] * y[2] < y[1] * x[2]
RLe(x, y)  == x[1] * y[2] <= y[1] * x[2]
RGt(x, y)  == RLt(y, x)
RGe(x, y)  == RLe(y, x)

\* Variant of constrain: the upper limit is not applied.
ConstrainNoHigh(value, low, high) == IF RLt(value, low) THEN low ELSE value

\* #define constrain(value, low, high)
Constrain(value, low, high) ==
    IF RLt(value, low) THEN low
    ELSE IF RGt(value, high) THEN high
    ELSE value

MANUAL_MODE == 0
AUTO_MODE   == 1

\* The default limits of the constructor, 3.3 V.
DefaultMax == Rat(33, 10)

\* ------------------------------------------------------------------------
\* The methods of PID, as functions from the object's state to its next state
\* ------------------------------------------------------------------------

\* void PID::setInputLimits(float inMin, float inMax)
SetInputLimits(s, inMin, inMax) ==
    IF RGe(inMin, inMax) THEN s
    ELSE LET ratio == RDiv(RSub(inMax, inMin), s.inSpan)
         IN  [s EXCEPT !.prevProcessVariable =
                           Constrain(RMul(s.prevProcessVariable, ratio), F(0), F(1)),
                       !.accError = RMul(s.accError, ratio),
                       !.inMin = inMin,
                       !.inMax = inMax,
                       !.inSpan = RSub(inMax, inMin)]

\* void PID::setOutputLimits(float outMin, float outMax)
SetOutputLimits(s, outMin, outMax) ==
    IF RGe(outMin, outMax) THEN s
    ELSE LET ratio == RDiv(RSub(outMax, outMin), s.outSpan)
         IN  [s EXCEPT !.prevControllerOutput =
                           Constrain(RMul(s.prevControllerOutput, ratio), F(0), F(1)),
                       !.outMin = outMin,
                       !.outMax = outMax,
                       !.outSpan = RSub(outMax, outMin)]

\* The local tempTauR of setTunings.
TempTauR(s, tauI) ==
    IF tauI = F(0) THEN F(0) ELSE RMul(RDiv(F(1), tauI), s.tSample)

\* Variant of the rescaling in setTunings: the ratio is new over old.
RescaleAccErrorInverted(s, Kc, tempTauR) ==
    IF s.inAuto
    THEN IF tempTauR = F(0) THEN F(0)
         ELSE IF RMul(s.Kc, s.tauR) = F(0) THEN s.accError
         ELSE RMul(s.accError, RDiv(RMul(Kc, tempTauR), RMul(s.Kc, s.tauR)))
    ELSE s.accError

\* The "bumpless transfer" rescaling of the accumulated error in setTunings.
RescaleAccError(s, Kc, tempTauR) ==
    IF s.inAuto
    THEN IF tempTauR = F(0) THEN F(0)
         ELSE RMul(s.accError, RDiv(RMul(s.Kc, s.tauR), RMul(Kc, tempTauR)))
    ELSE s.accError

\* Variant of setTunings: the raw values are stored before the tunings are
\* verified.
SetTuningsStoreFirst(s, Kc, tauI, tauD) ==
    LET t == [s EXCEPT !.pParam = Kc, !.iParam = tauI, !.dParam = tauD]
    IN  IF Kc = F(0) \/ RLt(tauI, F(0)) \/ RLt(tauD, F(0)) THEN t
        ELSE LET tempTauR == TempTauR(s, tauI)
             IN  [t EXCEPT !.accError = RescaleAccError(s, Kc, tempTauR),
                           !.Kc = Kc,
                           !.tauR = tempTauR,
                           !.tauD = RDiv(tauD, s.tSample)]

\* void PID::setTunings(float Kc, float tauI, float tauD)
SetTunings(s, Kc, tauI, tauD) ==
    IF Kc = F(0) \/ RLt(tauI, F(0)) \/ RLt(tauD, F(0)) THEN s
    ELSE LET tempTauR == TempTauR(s, tauI)
         IN  [s EXCEPT !.pParam = Kc,
                       !.iParam = tauI,
                       !.dParam = tauD,
                       !.accError = RescaleAccError(s, Kc, tempTauR),
                       !.Kc = Kc,
                       !.tauR = tempTauR,
                       !.tauD = RDiv(tauD, s.tSample)]

\* void PID::reset(void)
Reset(s) ==
    LET scaledBias == IF s.usingFeedForward
                      THEN RDiv(RSub(s.bias, s.outMin), s.outSpan)
                      ELSE RDiv(RSub(s.realOutput, s.outMin), s.outSpan)
    IN  [s EXCEPT !.prevControllerOutput = scaledBias,
                  !.prevProcessVariable =
                      RDiv(RSub(s.processVariable, s.inMin), s.inSpan),
                  !.accError = F(0)]

\* Variant of setMode: every setMode(non-zero) resets.
SetModeAlwaysReset(s, mode) ==
    LET r == IF mode # 0 THEN Reset(s) ELSE s
    IN  [r EXCEPT !.inAuto = (mode # 0)]

\* void PID::setMode(int mode)
SetMode(s, mode) ==
    LET r == IF mode # 0 /\ ~s.inAuto THEN Reset(s) ELSE s
    IN  [r EXCEPT !.inAuto = (mode # 0)]

\* Variant of setInterval: the accumulated error is not rescaled.
SetIntervalKeepAccError(s, interval) ==
    IF RGt(interval, F(0))
    THEN [s EXCEPT !.tauR = RMul(s.tauR, RDiv(interval, s.tSample)),
                   !.tauD = RMul(s.tauD, RDiv(interval, s.tSample)),
                   !.tSample = interval]
    ELSE s

\* void PID::setInterval(float interval)
SetInterval(s, interval) ==
    IF RGt(interval, F(0))
    THEN [s EXCEPT !.tauR = RMul(s.tauR, RDiv(interval, s.tSample)),
                   !.accError = RMul(s.accError, RDiv(s.tSample, interval)),
                   !.tauD = RMul(s.tauD, RDiv(interval, s.tSample)),
                   !.tSample = interval]
    ELSE s

\* void PID::setSetPoint(float sp)
SetSetPoint(s, sp) == [s EXCEPT !.setPoint = sp]

\* void PID::setProcessValue(float pv)
SetProcessValue(s, pv) == [s EXCEPT !.processVariable = pv]

\* void PID::setBias(float bias)
SetBias(s, bias) == [s EXCEPT !.bias = bias, !.usingFeedForward = TRUE]

\* compute(): the locals scaledPV, scaledSP and error.
ScaledPV(s) == Constrain(RDiv(RSub(s.processVariable, s.inMin), s.inSpan), F(0), F(1))
ScaledSP(s) == Constrain(RDiv(RSub(s.setPoint, s.inMin), s.inSpan), F(0), F(1))
Error(s)    == RSub(ScaledSP(s), ScaledPV(s))

\* Variant of the reset-windup check: the error is always integrated.
IntegrateAlways(s) == RAdd(s.accError, Error(s))

\* compute(): the reset-windup check; the accumulated error after it.
Integrate(s) ==
    IF ~(RGe(s.prevControllerOutput, F(1)) /\ RGt(Error(s), F(0)))
       /\ ~(RLe(s.prevControllerOutput, F(0)) /\ RLt(Error(s), F(0)))
    THEN RAdd(s.accError, Error(s))
    ELSE s.accError

\* compute(): the PID calculation, before the output is constrained.
RawOutput(s, accError) ==
    LET dMeas      == RDiv(RSub(ScaledPV(s), s.prevProcessVariable), s.tSample)
        scaledBias == IF s.usingFeedForward
                      THEN RDiv(RSub(s.bias, s.outMin), s.outSpan)
                      ELSE F(0)
    IN  RAdd(scaledBias,
             RMul(s.Kc, RSub(RAdd(Error(s), RMul(s.tauR, accError)),
                             RMul(s.tauD, dMeas))))

\* Variant of compute(): the computed output is not constrained.
ComputeNoConstrain(s) ==
    LET accError == Integrate(s)
        out      == RawOutput(s, accError)
    IN  [s EXCEPT !.accError = accError,
                  !.controllerOutput = out,
                  !.prevControllerOutput = out,
                  !.prevProcessVariable = ScaledPV(s)]

\* float PID::compute(): the state it leaves.
Compute(s) ==
    LET accError == Integrate(s)
        out      == Constrain(RawOutput(s, accError), F(0), F(1))
    IN  [s EXCEPT !.accError = accError,
                  !.controllerOutput = out,
                  !.prevControllerOutput = out,
                  !.prevProcessVariable = ScaledPV(s)]

\* float PID::compute(): the value it returns, from the state it leaves.
ComputeResult(t) == RAdd(RMul(t.controllerOutput, t.outSpan), t.outMin)

\* PID::PID(float Kc, float tauI, float tauD, float interval), run on an
\* object g whose fields hold whatever the memory held.
Construct(g, Kc, tauI, tauD, interval) ==
    LET s0 == [g EXCEPT !.usingFeedForward = FALSE, !.inAuto = FALSE]
        s1 == SetInputLimits(s0, F(0), DefaultMax)
        s2 == SetOutputLimits(s1, F(0), DefaultMax)
        s3 == [s2 EXCEPT !.tSample = interval]
        s4 == SetTunings(s3, Kc, tauI, tauD)
    IN  [s4 EXCEPT !.setPoint = F(0),
                   !.processVariable = F(0),
                   !.prevProcessVariable = F(0),
                   !.controllerOutput = F(0),
                   !.prevControllerOutput = F(0),
                   !.accError = F(0),
                   !.bias = F(0),
                   !.realOutput = F(0)]

\* ------------------------------------------------------------------------
\* The program: one controller and the calls its owner makes on it
\* ------------------------------------------------------------------------

VARIABLES
    pid,        \* the fields of the PID object
    last,       \* the call made last: its name and arguments
    returned,   \* the value compute() returned last, 0.0 before any compute()
    accBefore,  \* _accError as it was when the last call began
    calls,      \* the number of calls made since construction
    scenario    \* how many calls of ScenarioCalls the calls so far match, -1 if they left it

vars == << pid, last, returned, accBefore, calls, scenario >>

\* The number of calls a run makes on the controller.
MaxCalls == 4

\* The arguments the calls are drawn from.
CtorArgs   == { << F(2), F(5), F(1), F(1) >>, << F(1), F(0), F(2), F(2) >> }
LimitPairs == { << F(0), DefaultMax >>, << F(0), F(1) >>, << F(-1), F(1) >>,
                << F(1), F(1) >>, << F(2), F(1) >> }
Tunings    == { << F(2), F(5), F(1) >>, << F(1), F(2), F(0) >>, << F(-1), F(0), F(1) >>,
                << F(0), F(5), F(1) >>, << F(2), F(-1), F(1) >>, << F(2), F(5), F(-1) >> }
Intervals  == { F(1), F(2), F(0), F(-1) }
SetPoints  == { F(0), Rat(33, 20), F(5) }
ProcessValues == { F(0), Rat(33, 20), F(5), F(-1) }
Biases     == { F(0), Rat(33, 20), F(5) }
Modes      == { MANUAL_MODE, AUTO_MODE, 2 }

\* What the fields of a PID object may hold before its constructor runs.
Garbage ==
    { [usingFeedForward |-> b, inAuto |-> b,
       Kc |-> v, tauR |-> v, tauD |-> v,
       pParam |-> v, iParam |-> v, dParam |-> v,
       setPoint |-> v, processVariable |-> v, prevProcessVariable |-> v,
       controllerOutput |-> v, prevControllerOutput |-> v,
       inMin |-> v, inMax |-> v, inSpan |-> v,
       outMin |-> v, outMax |-> v, outSpan |-> v,
       accError |-> v, bias |-> v, tSample |-> v, realOutput |-> v]
      : v \in { F(1), Rat(-7, 3) }, b \in BOOLEAN }

\* The calls of the scenario of the specification's section 8, after
\* PID(2.0, 5.0, 1.0, 1.0).
ScenarioCtor  == << F(2), F(5), F(1), F(1) >>
ScenarioCalls ==
    << [op |-> "setSetPoint",     args |-> << Rat(33, 20) >>],
       [op |-> "setProcessValue", args |-> << F(0) >>],
       [op |-> "setMode",         args |-> << AUTO_MODE >>],
       [op |-> "compute",         args |-> << >>] >>

Init ==
    \E g \in Garbage, a \in CtorArgs :
        /\ pid = Construct(g, a[1], a[2], a[3], a[4])
        /\ last = [op |-> "PID", args |-> a]
        /\ returned = F(0)
        /\ accBefore = F(0)
        /\ calls = 0
        /\ scenario = IF a = ScenarioCtor THEN 0 ELSE -1

\* One call op(args) that leaves the object as t and returns ret from compute().
Call(op, args, t, ret) ==
    /\ calls < MaxCalls
    /\ pid' = t
    /\ last' = [op |-> op, args |-> args]
    /\ returned' = ret
    /\ accBefore' = pid.accError
    /\ calls' = calls + 1
    /\ scenario' = IF /\ scenario >= 0
                      /\ scenario < Len(ScenarioCalls)
                      /\ ScenarioCalls[scenario + 1] = [op |-> op, args |-> args]
                   THEN scenario + 1
                   ELSE -1

SetInputLimitsCall ==
    \E p \in LimitPairs :
        Call("setInputLimits", p, SetInputLimits(pid, p[1], p[2]), returned)

SetOutputLimitsCall ==
    \E p \in LimitPairs :
        Call("setOutputLimits", p, SetOutputLimits(pid, p[1], p[2]), returned)

SetTuningsCall ==
    \E p \in Tunings :
        Call("setTunings", p, SetTunings(pid, p[1], p[2], p[3]), returned)

ResetCall == Call("reset", << >>, Reset(pid), returned)

SetModeCall ==
    \E m \in Modes : Call("setMode", << m >>, SetMode(pid, m), returned)

SetIntervalCall ==
    \E i \in Intervals : Call("setInterval", << i >>, SetInterval(pid, i), returned)

SetSetPointCall ==
    \E sp \in SetPoints : Call("setSetPoint", << sp >>, SetSetPoint(pid, sp), returned)

GetSetPointCall == Call("getSetPoint", << >>, pid, returned)

SetProcessValueCall ==
    \E pv \in ProcessValues :
        Call("setProcessValue", << pv >>, SetProcessValue(pid, pv), returned)

SetBiasCall ==
    \E b \in Biases : Call("setBias", << b >>, SetBias(pid, b), returned)

ComputeCall == Call("compute", << >>, Compute(pid), ComputeResult(Compute(pid)))

Next ==
    \/ SetInputLimitsCall
    \/ SetOutputLimitsCall
    \/ SetTuningsCall
    \/ ResetCall
    \/ SetModeCall
    \/ SetIntervalCall
    \/ SetSetPointCall
    \/ GetSetPointCall
    \/ SetProcessValueCall
    \/ SetBiasCall
    \/ ComputeCall

Spec == Init /\ [][Next]_vars

\* ------------------------------------------------------------------------
\* Properties
\* ------------------------------------------------------------------------

\* x lies in [0, 1].
InUnit(x) == RLe(F(0), x) /\ RLe(x, F(1))

\* The call c is one the code rejects: limits with min >= max, tunings with
\* Kc == 0 or tauI < 0 or tauD < 0, an interval <= 0.
Rejected(c) ==
    \/ /\ c.op \in { "setInputLimits", "setOutputLimits" }
       /\ RGe(c.args[1], c.args[2])
    \/ /\ c.op = "setTunings"
       /\ (c.args[1] = F(0) \/ RLt(c.args[2], F(0)) \/ RLt(c.args[3], F(0)))
    \/ /\ c.op = "setInterval"
       /\ RLe(c.args[1], F(0))

\* C1: whatever calls came before, the value compute() returns lies in
\* [outMin, outMax] for the output limits in force at that call.
C1_OutputBound ==
    last.op = "compute" => RLe(pid.outMin, returned) /\ RLe(returned, pid.outMax)

\* C1's case: with output limits [-1, 1] in force, a compute() whose output
\* saturates returns outMax.
C1_Witness ==
    /\ last.op = "compute"
    /\ pid.outMin = F(-1)
    /\ pid.outMax = F(1)
    /\ returned = pid.outMax

\* C2: a rejected setInputLimits, setOutputLimits, setTunings or setInterval
\* leaves every field of the controller as it was.
C2_RejectedIsNoOp == [][Rejected(last') => pid' = pid]_vars

\* C2's case: setTunings is rejected in automatic mode with a non-zero
\* accumulated error, where an accepted call would have rescaled it.
C2_Witness ==
    /\ last.op = "setTunings"
    /\ Rejected(last)
    /\ pid.inAuto
    /\ pid.accError # F(0)
    /\ pid.tauR # F(0)

\* C3: after every call the stored scaled quantities, prevProcessVariable,
\* controllerOutput and prevControllerOutput, lie in [0, 1].
C3_ScaledInUnit ==
    /\ InUnit(pid.prevProcessVariable)
    /\ InUnit(pid.controllerOutput)
    /\ InUnit(pid.prevControllerOutput)

\* C4: compute() leaves accError unchanged when the previous output is
\* saturated at 1 (at or above it) and the scaled error is positive, or
\* saturated at 0 (at or below it) and the scaled error is negative; in every
\* other case accError grows by exactly scaledSP - scaledPV.
C4_AntiWindup ==
    [][last'.op = "compute" =>
            LET error == RSub(ScaledSP(pid), ScaledPV(pid))
            IN  IF \/ RGe(pid.prevControllerOutput, F(1)) /\ RGt(error, F(0))
                   \/ RLe(pid.prevControllerOutput, F(0)) /\ RLt(error, F(0))
                THEN pid'.accError = pid.accError
                ELSE pid'.accError = RAdd(pid.accError, error)]_vars

\* C4's case: a compute() with a positive error and a non-zero accumulated
\* error that left accError as it was, the output staying at 1.
C4_Witness ==
    /\ last.op = "compute"
    /\ RGt(Error(pid), F(0))
    /\ accBefore # F(0)
    /\ pid.accError = accBefore
    /\ pid.controllerOutput = F(1)

\* C5, as stated: after PID(2.0, 5.0, 1.0, 1.0), setSetPoint(1.65),
\* setProcessValue(0.0) and setMode(Automatic), the first compute() returns a
\* value strictly between 0.0 and 3.3.
C5_ScenarioStrictlyInside ==
    scenario = Len(ScenarioCalls) => RGt(returned, F(0)) /\ RLt(returned, DefaultMax)

\* C5, amended: in that scenario the first compute() returns exactly 3.3, the
\* upper output limit: the output saturates.
C5_ScenarioSaturates ==
    scenario = Len(ScenarioCalls) => returned = DefaultMax /\ pid.controllerOutput = F(1)

\* C5's case: the scenario's four calls have been made.
C5_Witness ==
    /\ scenario = Len(ScenarioCalls)
    /\ last.op = "compute"
    /\ pid.inAuto
    /\ pid.setPoint = Rat(33, 20)

\* C6: setMode(non-zero) in manual mode resets and then sets the auto flag:
\* on return inAuto holds, accError is 0, prevProcessVariable is the process
\* value scaled by the input limits and, with feed-forward on,
\* prevControllerOutput is the bias scaled by the output limits; in automatic
\* mode setMode(non-zero) changes nothing.
C6_BumplessEngage ==
    [][(last'.op = "setMode" /\ last'.args[1] # 0) =>
            IF ~pid.inAuto
            THEN /\ pid'.inAuto
                 /\ pid'.accError = F(0)
                 /\ pid'.prevProcessVariable =
                        RDiv(RSub(pid.processVariable, pid.inMin), pid.inSpan)
                 /\ pid.usingFeedForward =>
                        pid'.prevControllerOutput =
                            RDiv(RSub(pid.bias, pid.outMin), pid.outSpan)
            ELSE pid' = pid]_vars

\* C6's case: setMode(non-zero) has engaged a controller with feed-forward on,
\* a non-zero bias and a non-zero accumulated error.
C6_Witness ==
    /\ last.op = "setMode"
    /\ last.args[1] # 0
    /\ pid.usingFeedForward
    /\ accBefore # F(0)
    /\ pid.accError = F(0)
    /\ pid.prevControllerOutput # F(0)

\* C7: an accepted setInterval(new) at sample interval old leaves
\* accError_new = accError_old * (old / new), tauR_new = tauR_old * (new / old),
\* tauD_new = tauD_old * (new / old) and tSample = new.
C7_IntervalRescale ==
    [][(last'.op = "setInterval" /\ RGt(last'.args[1], F(0))) =>
            LET new == last'.args[1]
                old == pid.tSample
            IN  /\ RMul(pid'.accError, new) = RMul(pid.accError, old)
                /\ RMul(pid'.tauR, old) = RMul(pid.tauR, new)
                /\ RMul(pid'.tauD, old) = RMul(pid.tauD, new)
                /\ pid'.tSample = new]_vars

\* C7's case: setInterval(2.0) has changed a non-zero accumulated error, with
\* non-zero tauR and tauD.
C7_Witness ==
    /\ last.op = "setInterval"
    /\ last.args[1] = F(2)
    /\ pid.accError # accBefore
    /\ pid.tauR # F(0)
    /\ pid.tauD # F(0)

\* C8: in every state the derived tunings agree with the raw tunings and the
\* sample interval: tauR = (tauI > 0 ? (1 / tauI) * tSample : 0) and
\* tauD = dParam / tSample.
C8_DerivedConsistent ==
    /\ pid.tauR = IF RGt(pid.iParam, F(0))
                  THEN RMul(RDiv(F(1), pid.iParam), pid.tSample)
                  ELSE F(0)
    /\ pid.tauD = RDiv(pid.dParam, pid.tSample)

\* C9: an accepted setTunings in automatic mode keeps Kc * tauR * accError
\* when the new tauI is positive and zeroes accError when the new tauI is 0;
\* in manual mode it leaves accError unchanged.
C9_BumplessRetune ==
    [][(last'.op = "setTunings" /\ ~Rejected(last')) =>
            IF pid.inAuto
            THEN IF RGt(last'.args[2], F(0))
                 THEN RMul(RMul(pid'.Kc, pid'.tauR), pid'.accError)
                          = RMul(RMul(pid.Kc, pid.tauR), pid.accError)
                 ELSE pid'.accError = F(0)
            ELSE pid'.accError = pid.accError]_vars

\* C9's case: an accepted setTunings in automatic mode, with a positive new
\* tauI, has changed a non-zero accumulated error to another non-zero value.
C9_Witness ==
    /\ last.op = "setTunings"
    /\ ~Rejected(last)
    /\ RGt(last.args[2], F(0))
    /\ pid.inAuto
    /\ pid.accError # F(0)
    /\ pid.accError # accBefore

\* C10: with feed-forward off, reset() leaves prevControllerOutput at
\* (lastOutput - outMin) / outSpan, lastOutput being the value compute()
\* returned last (0 before any compute()).
C10_ResetFromLastOutput ==
    (last.op = "reset" /\ ~pid.usingFeedForward) =>
        pid.prevControllerOutput = RDiv(RSub(returned, pid.outMin), pid.outSpan)

====
